---- MODULE Spec2Model ----
(***************************************************************************)
(* A model of the ksuid package (src/ksuid.go): the 20-byte identifier,   *)
(* its base-62 string form, construction from parts / bytes / text, the   *)
(* comparison, and the generator with its process-wide entropy handle and *)
(* payload buffer pool.                                                    *)
(*                                                                         *)
(* Byte slices and Go strings are sequences of numbers 0..255.  The      *)
(* 160-bit magnitude of an identifier is converted digit by digit, by     *)
(* long division; a uint32 and an int64 are sequences of 16-bit limbs,    *)
(* most significant first, with wrapping arithmetic.                      *)
(***************************************************************************)
EXTENDS Integers, Sequences, FiniteSets, TLC

\* ------------------------------------------------------------ constants

epochStamp == 1400000000

timestampLengthInBytes == 4

payloadLengthInBytes == 16

byteLength == timestampLengthInBytes + payloadLengthInBytes

stringEncodedLength == 27

\* ------------------------------------------------------- bounds of the model

\* Identifiers drawn for the codec have 0..MaxZeroPrefix leading zero bytes.
MaxZeroPrefix == 2

\* Inputs of Parse / FromBytes / Scan have 0..MaxInputLen bytes.
MaxInputLen == 28

\* Times handed to FromParts lie 0..MaxSeconds seconds after a base time.
MaxSeconds == 3

\* Goroutines calling NewRandom concurrently, and calls made in all.
NumProcs == 2

MaxCalls == 2

\* Calls of SetRand, and half-second steps of the wall clock.
MaxSetRand == 1

MaxTicks == 3

\* ------------------------------------------------------------ helpers

Reverse(s) == [i \in 1..Len(s) |-> s[Len(s) + 1 - i]]

Fill(n, x) == [i \in 1..n |-> x]

\* Go's copy(dst[at:], src) on the array arr (at is 0-based): overwrites
\* min(len(src), len(arr)-at) elements, with memmove semantics.
GoCopy(arr, at, src) ==
    [k \in 1..Len(arr) |->
        IF k > at /\ k - at <= Len(src) THEN src[k - at] ELSE arr[k]]

\* bytes.Compare and Go's string comparison: unsigned lexicographic order.
RECURSIVE SeqCompareFrom(_, _, _)
SeqCompareFrom(x, y, i) ==
    IF i > Len(x) /\ i > Len(y) THEN 0
    ELSE IF i > Len(x) THEN -1
    ELSE IF i > Len(y) THEN 1
    ELSE IF x[i] < y[i] THEN -1
    ELSE IF x[i] > y[i] THEN 1
    ELSE SeqCompareFrom(x, y, i + 1)

\* ------------------------------------------------------------ text

\* The base-62 alphabet in digit order, one character per entry.
Base62Chars ==
    << "0","1","2","3","4","5","6","7","8","9",
       "A","B","C","D","E","F","G","H","I","J","K","L","M",
       "N","O","P","Q","R","S","T","U","V","W","X","Y","Z",
       "a","b","c","d","e","f","g","h","i","j","k","l","m",
       "n","o","p","q","r","s","t","u","v","w","x","y","z" >>

\* The byte a base-62 digit value is written as.
base62Char(d) ==
    IF d < 10 THEN 48 + d
    ELSE IF d < 36 THEN 65 + (d - 10)
    ELSE 97 + (d - 36)

IsBase62Char(c) ==
    \/ c >= 48 /\ c <= 57
    \/ c >= 65 /\ c <= 90
    \/ c >= 97 /\ c <= 122

\* The digit value of a base-62 character.
base62Value(c) ==
    IF c >= 48 /\ c <= 57 THEN c - 48
    ELSE IF c >= 65 /\ c <= 90 THEN 10 + (c - 65)
    ELSE 36 + (c - 97)

\* A Go string literal over the alphabet, as its bytes.
Str(chars) ==
    [i \in 1..Len(chars) |->
        base62Char((CHOOSE d \in 1..62 : Base62Chars[d] = chars[i]) - 1)]

maxStringEncoded ==
    Str(<< "a","W","g","E","P","T","l","1","t","m","e","b","f","s",
           "Q","z","F","P","4","b","x","w","g","y","8","0","V" >>)

Nil == Fill(byteLength, 0)

\* ------------------------------------------------------------ base-62 codec

\* One pass of long division of the inBase number bs by outBase: the
\* quotient without leading zero digits, and the remainder.
RECURSIVE DivPass(_, _, _, _, _, _)
DivPass(bs, i, quotient, remainder, inBase, outBase) ==
    IF i > Len(bs) THEN [quotient |-> quotient, remainder |-> remainder]
    ELSE LET acc == bs[i] + remainder * inBase
             d == acc \div outBase
         IN DivPass(bs, i + 1,
                    IF Len(quotient) # 0 \/ d # 0
                    THEN Append(quotient, d) ELSE quotient,
                    acc % outBase, inBase, outBase)

\* The outBase digits of bs, least significant first.
RECURSIVE Base2BaseDigits(_, _, _)
Base2BaseDigits(bs, inBase, outBase) ==
    IF Len(bs) = 0 THEN << >>
    ELSE LET p == DivPass(bs, 1, << >>, 0, inBase, outBase)
         IN << p.remainder >> \o Base2BaseDigits(p.quotient, inBase, outBase)

appendBase2Base(dst, src, inBase, outBase) ==
    dst \o Reverse(Base2BaseDigits(src, inBase, outBase))

appendEncodeBase62(dst, src) ==
    LET digits == appendBase2Base(<< >>, src, 256, 62)
    IN dst \o [k \in 1..Len(digits) |-> base62Char(digits[k])]

\* The decoder on digit values already looked up.
decodeDigits(dst, digits) == appendBase2Base(dst, digits, 62, 256)

appendDecodeBase62(dst, src) ==
    decodeDigits(dst, [k \in 1..Len(src) |-> base62Value(src[k])])

\* What an invalid character may be taken for by the digit lookup.
GarbageDigits == {0, 255}

\* The contents of Parse's 20-byte array dst after a decode into dst[:0]
\* that produced more than 20 bytes: the result then lives in a grown
\* array, and dst keeps what was appended to it before the growth.
OverflowDst(decoded) ==
    { Fill(byteLength, 0),
      SubSeq(Reverse(decoded), 1, byteLength),
      SubSeq(decoded, 1, byteLength) }

\* ------------------------------------------------------------ integers

\* An int64 is four 16-bit limbs and a uint32 two, most significant first
\* (two's complement); a time.Time is Unix seconds and nanoseconds.
Limb == 256 * 256

I64(n) == << 0, 0, n \div Limb, n % Limb >>

\* x + y and x - y on int64, wrapping.
RECURSIVE AddLimbs(_, _, _, _)
AddLimbs(x, y, k, carry) ==
    IF k = 0 THEN << >>
    ELSE LET s == x[k] + y[k] + carry
         IN Append(AddLimbs(x, y, k - 1, s \div Limb), s % Limb)

Add64(x, y) == AddLimbs(x, y, 4, 0)

Neg64(y) == Add64([k \in 1..4 |-> Limb - 1 - y[k]], I64(1))

Sub64(x, y) == Add64(x, Neg64(y))

\* The conversions uint32(int64) and int64(uint32).
ToUint32(x) == << x[3], x[4] >>

ToInt64(u) == << 0, 0, u[1], u[2] >>

PutUint32LittleEndian(v) ==
    << v[2] % 256, v[2] \div 256, v[1] % 256, v[1] \div 256 >>

\* binary.BigEndian.PutUint32 and binary.BigEndian.Uint32.
PutUint32(v) ==
    << v[1] \div 256, v[1] % 256, v[2] \div 256, v[2] % 256 >>

Uint32(bs) == << bs[1] * 256 + bs[2], bs[3] * 256 + bs[4] >>

UnixTime(sec, nsec) == [sec |-> sec, nsec |-> nsec]

Unix(t) == t.sec

\* ------------------------------------------------------------ KSUID

Result(id, err) == [id |-> id, err |-> err]

Panic == [id |-> << >>, err |-> "panic"]

AppendUnpadded(i, b) == appendEncodeBase62(b, i)

AppendPadRight(i, b) ==
    LET b1 == appendEncodeBase62(b, i)
    IN b1 \o Fill(stringEncodedLength - (Len(b1) - Len(b)), 48)

KsuidAppend(i, b) ==
    LET off == Len(b)
        b1 == appendEncodeBase62(b, i)
        pad == stringEncodedLength - (Len(b1) - off)
    IN IF pad > 0
       THEN LET zeroes == Fill(stringEncodedLength, 48)
                b2 == b1 \o SubSeq(zeroes, 1, pad)
                b3 == GoCopy(b2, off + pad, SubSeq(b2, off + 1, Len(b2)))
            IN GoCopy(b3, off, SubSeq(zeroes, 1, pad))
       ELSE b1

String(i) == KsuidAppend(i, << >>)

Payload(i) == SubSeq(i, timestampLengthInBytes + 1, byteLength)

FromBytesPrefix(b) ==
    IF Len(b) < byteLength THEN Result(Nil, "errSize")
    ELSE Result(GoCopy(Nil, 0, b), "nil")

FromBytes(b) ==
    IF Len(b) # byteLength THEN Result(Nil, "errSize")
    ELSE Result(GoCopy(Nil, 0, b), "nil")

timeToCorrectedUTCTimestamp(t) ==
    ToUint32(Sub64(Unix(t), I64(epochStamp)))

correctedUTCTimestampToTime(ts) ==
    UnixTime(Add64(ToInt64(ts), I64(epochStamp)), 0)

Timestamp(i) == Uint32(SubSeq(i, 1, timestampLengthInBytes))

Time(i) == correctedUTCTimestampToTime(Timestamp(i))

FromPartsPayloadFirst(t, payload) ==
    IF Len(payload) # payloadLengthInBytes THEN Result(Nil, "errPayloadSize")
    ELSE LET ts == timeToCorrectedUTCTimestamp(t)
             k1 == GoCopy(Nil, payloadLengthInBytes, PutUint32(ts))
         IN Result(GoCopy(k1, 0, payload), "nil")

FromParts(t, payload) ==
    IF Len(payload) # payloadLengthInBytes THEN Result(Nil, "errPayloadSize")
    ELSE LET ts == timeToCorrectedUTCTimestamp(t)
             k1 == GoCopy(Nil, 0, PutUint32(ts))
         IN Result(GoCopy(k1, timestampLengthInBytes, payload), "nil")

Compare(a, b) == SeqCompareFrom(a, b, 1)

\* Parse's array dst once the decoder has run on dst[:0].
ParseDstAfterDecode(decoded) ==
    IF Len(decoded) <= byteLength
    THEN { decoded \o Fill(byteLength - Len(decoded), 0) }
    ELSE OverflowDst(decoded)

ParsePadWrong(dst, decoded) == dst

ParsePadNoZero(dst, decoded) ==
    LET pad == byteLength - Len(decoded)
    IN IF pad > 0 THEN GoCopy(dst, pad, dst) ELSE dst

\* Lines 199-203 of Parse: shift the decoded bytes right, zero the front.
ParsePad(dst, decoded) ==
    LET pad == byteLength - Len(decoded)
    IN IF pad > 0
       THEN LET zeroes == Fill(byteLength, 0)
                d1 == GoCopy(dst, pad, dst)
            IN GoCopy(d1, 0, SubSeq(zeroes, 1, pad))
       ELSE dst

\* Every outcome of Parse(s).  The decoder returns only a slice, so an
\* invalid character either leaves the call by a panic or is decoded as
\* some digit value.
ParseOutcomes(s) ==
    IF Len(s) # stringEncodedLength THEN { Result(Nil, "errStrSize") }
    ELSE LET valid == \A k \in 1..Len(s) : IsBase62Char(s[k])
             digitsWith(g) ==
                 [k \in 1..Len(s) |->
                     IF IsBase62Char(s[k]) THEN base62Value(s[k]) ELSE g]
             returned(decoded) ==
                 { FromBytes(ParsePad(dst, decoded)) :
                     dst \in ParseDstAfterDecode(decoded) }
         IN IF valid THEN returned(appendDecodeBase62(<< >>, s))
            ELSE {Panic} \cup
                 UNION { returned(decodeDigits(<< >>, digitsWith(g))) :
                           g \in GarbageDigits }

\* ------------------------------------------------------------ state

VARIABLES
    idA, idB,          \* codec: the two identifiers under test
    strA, strB,    \* codec: their String() values
    cmp,           \* codec: Compare(idA, idB)
    parsed,        \* codec: the result of Parse(strA)
    cpc,           \* codec: the step reached
    inp,           \* input: the bytes handed to Parse, FromBytes or Scan
    srcKind,       \* input: the dynamic type of Scan's argument
    recv,          \* input: the KSUID that Scan is called on
    pres,          \* input: the (KSUID, error) returned
    pstr,          \* input: String() of a parsed KSUID
    ppc,           \* input: the step reached
    tIn, plIn,     \* parts: the time and payload handed to FromParts
    made,          \* parts: the (KSUID, error) returned
    tsOut, timeOut,\* parts: Timestamp() and Time() of the KSUID
    fpc,           \* parts: the step reached
    now,           \* generator: the wall clock
    ticks,         \* generator: half seconds the clock has advanced
    rander,        \* generator: the entropy handle, an interface value
    setter,        \* generator: the goroutine calling SetRand
    pool,          \* generator: the buffers in payloadPool
    buf,           \* generator: the contents of every buffer allocated
    proc,          \* generator: each NewRandom caller's position and locals
    returned       \* generator: the identifiers returned so far

codecVars == << idA, idB, strA, strB, cmp, parsed, cpc >>

inputVars == << inp, srcKind, recv, pres, pstr, ppc >>

partsVars == << tIn, plIn, made, tsOut, timeOut, fpc >>

genVars == << now, ticks, rander, setter, pool, buf, proc, returned >>

vars == << codecVars, inputVars, partsVars, genVars >>

\* ------------------------------------------------------------ codec runs

FillBytes == {0, 1, 127, 255}

LastBytes == {0, 1, 255}

IdSet ==
    { Fill(z, 0) \o Fill(byteLength - 1 - z, f) \o << l >> :
        z \in 0..MaxZeroPrefix, f \in FillBytes, l \in LastBytes }

NoResult == Result(<< >>, "none")

InputIdle ==
    /\ inp = << >>
    /\ srcKind = "none"
    /\ recv = Nil
    /\ pres = NoResult
    /\ pstr = << >>
    /\ ppc = "idle"

ZeroTime == UnixTime(I64(0), 0)

PartsIdle ==
    /\ tIn = ZeroTime
    /\ plIn = << >>
    /\ made = NoResult
    /\ tsOut = << 0, 0 >>
    /\ timeOut = ZeroTime
    /\ fpc = "idle"

\* An interface value is two words: the dynamic type and the data pointer.
Handle(typ, data) == [typ |-> typ, data |-> data]

RandReader == Handle("*rand.reader", "rand.Reader")

UserReader == Handle("*user.reader", "user.Reader")

IdleProc ==
    [pc |-> "idle", calls |-> 0, held |-> 0, typ |-> "", data |-> "",
     read |-> << >>, src |-> "", ksuid |-> << >>, tick |-> 0, at |-> << >>]

GenIdle ==
    /\ now = ZeroTime
    /\ ticks = 0
    /\ rander = RandReader
    /\ setter = [pc |-> "idle", calls |-> 0, val |-> RandReader]
    /\ pool = {}
    /\ buf = << >>
    /\ proc = [p \in {} |-> IdleProc]
    /\ returned = {}

CodecInit ==
    /\ InputIdle
    /\ PartsIdle
    /\ GenIdle
    /\ idA \in IdSet
    /\ idB \in IdSet
    /\ strA = << >>
    /\ strB = << >>
    /\ cmp = 0
    /\ parsed = NoResult
    /\ cpc = "start"

DoString ==
    /\ cpc = "start"
    /\ strA' = String(idA)
    /\ strB' = String(idB)
    /\ cpc' = "string"
    /\ UNCHANGED << idA, idB, cmp, parsed, inputVars, partsVars, genVars >>

DoCompare ==
    /\ cpc = "string"
    /\ cmp' = Compare(idA, idB)
    /\ cpc' = "compare"
    /\ UNCHANGED << idA, idB, strA, strB, parsed, inputVars, partsVars, genVars >>

DoParse ==
    /\ cpc = "compare"
    /\ \E r \in ParseOutcomes(strA) : parsed' = r
    /\ cpc' = "parse"
    /\ UNCHANGED << idA, idB, strA, strB, cmp, inputVars, partsVars, genVars >>

CodecNext == DoString \/ DoCompare \/ DoParse

SpecCodec == CodecInit /\ [][CodecNext]_vars

\* C1: parsing the string form of an identifier succeeds and returns the
\* identifier itself, whatever its number of leading zero bytes.
C1_RoundTrip ==
    cpc = "parse" => parsed = Result(idA, "nil")

\* The identifier has leading zero bytes, its magnitude has fewer than 27
\* base-62 digits, and it has been encoded and parsed back.
C1_Witness ==
    /\ cpc = "parse"
    /\ idA[1] = 0 /\ idA # Nil
    /\ Len(AppendUnpadded(idA, << >>)) < stringEncodedLength
    /\ parsed.id = idA

\* C2: Compare on the bytes equals the lexicographic comparison of the
\* two strings.
C2_OrderPreserved ==
    cpc \in {"compare", "parse"} => cmp = SeqCompareFrom(strA, strB, 1)

\* Two identifiers whose magnitudes have different digit counts, compared.
C2_Witness ==
    /\ cpc = "compare"
    /\ cmp = -1
    /\ idA[1] = 0 /\ idB[1] # 0
    /\ idA[byteLength] > idB[byteLength]

\* C3: the string form has exactly 27 alphabet characters, zero-padded on
\* the left; Nil is 27 zeros; the all-0xFF identifier is maxStringEncoded,
\* and no string form is greater.
C3_FixedWidth ==
    cpc # "start" =>
        /\ Len(strA) = stringEncodedLength
        /\ \A k \in 1..Len(strA) : IsBase62Char(strA[k])
        /\ LET m == AppendUnpadded(idA, << >>)
               pad == stringEncodedLength - Len(m)
           IN strA = Fill(pad, 48) \o m
        /\ (idA = Nil => strA = Fill(stringEncodedLength, 48))
        /\ (idA = Fill(byteLength, 255) => strA = maxStringEncoded)
        /\ SeqCompareFrom(strA, maxStringEncoded, 1) <= 0

\* The greatest identifier and idA short-magnitude one, both encoded.
C3_Witness ==
    /\ cpc = "string"
    /\ idA = Fill(byteLength, 255)
    /\ strA = maxStringEncoded
    /\ strB[1] = 48 /\ idB # Nil

\* ------------------------------------------------------------ input runs

\* scan (lines 173-185) with its two unmarshallers (lines 133-149): the
\* outcomes as (receiver afterwards, error).
scanOutcomes(i, bs) ==
    LET assign(rs) ==
            { IF r.err = "nil" THEN Result(r.id, "nil") ELSE Result(i, r.err) :
                r \in rs }
    IN IF Len(bs) = 0 THEN { Result(Nil, "nil") }
       ELSE IF Len(bs) = byteLength THEN assign({ FromBytes(bs) })
       ELSE IF Len(bs) = stringEncodedLength THEN assign(ParseOutcomes(bs))
       ELSE { Result(i, "errSize") }

\* Scan (lines 160-171) on a value of dynamic type kind holding bs.
ScanOutcomes(i, kind, bs) ==
    CASE kind = "nil" -> scanOutcomes(i, << >>)
      [] kind = "bytes" -> scanOutcomes(i, bs)
      [] kind = "string" -> scanOutcomes(i, bs)
      [] OTHER -> { Result(i, "errScanType") }

SrcKinds == {"nil", "bytes", "string", "int64"}

\* '!', '0', 'V', 'a', 'z' and the two extreme byte values.
InputBytes == {0, 33, 48, 86, 97, 122, 255}

MaxPlusOne ==
    [k \in 1..stringEncodedLength |->
        IF k = stringEncodedLength THEN maxStringEncoded[k] + 1
        ELSE maxStringEncoded[k]]

InputSet ==
    { [k \in 1..n |-> IF k = 1 THEN f ELSE IF k = n THEN l ELSE m] :
        n \in 0..MaxInputLen, f \in InputBytes, m \in InputBytes, l \in InputBytes }
    \cup { maxStringEncoded, MaxPlusOne }

Receivers == { Nil, Fill(byteLength, 7) }

CodecIdle ==
    /\ idA = Nil
    /\ idB = Nil
    /\ strA = << >>
    /\ strB = << >>
    /\ cmp = 0
    /\ parsed = NoResult
    /\ cpc = "idle"

InputInit ==
    /\ CodecIdle
    /\ PartsIdle
    /\ GenIdle
    /\ inp \in InputSet
    /\ srcKind = "none"
    /\ recv \in Receivers
    /\ pres = NoResult
    /\ pstr = << >>
    /\ ppc = "start"

CallParse ==
    /\ ppc = "start"
    /\ \E r \in ParseOutcomes(inp) : pres' = r
    /\ ppc' = "Parse"
    /\ UNCHANGED << inp, srcKind, recv, pstr, codecVars, partsVars, genVars >>

CallString ==
    /\ ppc = "Parse"
    /\ pres.err = "nil"
    /\ pstr' = String(pres.id)
    /\ ppc' = "String"
    /\ UNCHANGED << inp, srcKind, recv, pres, codecVars, partsVars, genVars >>

CallFromBytes ==
    /\ ppc = "start"
    /\ pres' = FromBytes(inp)
    /\ ppc' = "FromBytes"
    /\ UNCHANGED << inp, srcKind, recv, pstr, codecVars, partsVars, genVars >>

CallScan ==
    /\ ppc = "start"
    /\ \E kind \in SrcKinds :
         /\ srcKind' = kind
         /\ \E r \in ScanOutcomes(recv, kind, inp) : pres' = r
    /\ ppc' = "Scan"
    /\ UNCHANGED << inp, recv, pstr, codecVars, partsVars, genVars >>

InputNext == CallParse \/ CallString \/ CallFromBytes \/ CallScan

SpecInput == InputInit /\ [][InputNext]_vars

ValidString(s) ==
    /\ Len(s) = stringEncodedLength
    /\ \A k \in 1..Len(s) : IsBase62Char(s[k])

\* C5 as claimed: Parse of a 27-character string holding a character
\* outside the alphabet returns an invalid-character error and no
\* identifier, and does not panic.
C5_InvalidCharacterRejected ==
    (ppc = "Parse" /\ Len(inp) = stringEncodedLength /\ ~ValidString(inp))
        => (pres.err = "errStrValue" /\ pres.id = Nil)

\* C6 as claimed: every 27-character base-62 string parses and encodes
\* back to itself.
C6_AllStringsRoundTrip ==
    /\ (ppc = "Parse" /\ ValidString(inp)) => pres.err = "nil"
    /\ (ppc = "String" /\ ValidString(inp)) => pstr = inp

\* C6 amended: every 27-character base-62 string that is not greater than
\* maxStringEncoded parses and encodes back to itself.
C6_RoundTripUpToMax ==
    (ValidString(inp) /\ SeqCompareFrom(inp, maxStringEncoded, 1) <= 0) =>
        /\ ppc = "Parse" => pres.err = "nil"
        /\ ppc = "String" => pstr = inp

\* A string with leading zero digits, below the maximum, parsed to a
\* non-nil identifier and encoded again.
C6_Witness ==
    /\ ppc = "String"
    /\ ValidString(inp)
    /\ inp[1] = 48 /\ inp[2] = 48
    /\ pres.id # Nil
    /\ pstr = inp

\* C8: wrong-length input is rejected with a size error and gives no
\* identifier: Parse unless 27 bytes, FromBytes unless 20 bytes, Scan of
\* bytes or text unless 0, 20 or 27 bytes (empty input gives Nil and no
\* error; a rejected Scan leaves its receiver as it was); FromBytes of 20
\* bytes returns them.
C8_SizeMismatch ==
    /\ (ppc = "Parse" /\ Len(inp) # stringEncodedLength)
           => pres = Result(Nil, "errStrSize")
    /\ (ppc = "FromBytes" /\ Len(inp) # byteLength)
           => pres = Result(Nil, "errSize")
    /\ (ppc = "FromBytes" /\ Len(inp) = byteLength)
           => pres = Result(inp, "nil")
    /\ (ppc = "Scan" /\ srcKind \in {"bytes", "string"}
            /\ Len(inp) \notin {0, byteLength, stringEncodedLength})
           => pres = Result(recv, "errSize")
    /\ (ppc = "Scan" /\ srcKind \in {"bytes", "string"} /\ Len(inp) = 0)
           => pres = Result(Nil, "nil")
    /\ (ppc = "Scan" /\ srcKind = "nil") => pres = Result(Nil, "nil")

\* Scan of 19 bytes on a receiver that held an identifier.
C8_Witness ==
    /\ ppc = "Scan"
    /\ srcKind = "bytes"
    /\ Len(inp) = byteLength - 1
    /\ recv # Nil
    /\ pres.err = "errSize"

\* ------------------------------------------------------------ parts runs

\* The first second after the 32-bit range of corrected timestamps.
RangeEnd == Add64(I64(epochStamp), << 0, 1, 0, 0 >>)

\* Seconds around 1970, the KSUID epoch, late 2026, and the range's end.
BaseSeconds ==
    { I64(0),
      Sub64(I64(epochStamp), I64(2)),
      I64(1793836800),
      Sub64(RangeEnd, I64(2)) }

SecondsSet == { Add64(s, I64(k)) : s \in BaseSeconds, k \in 0..MaxSeconds }

NanosSet == {0, 999999999}

PayloadSet ==
    { Fill(n, x) : n \in {payloadLengthInBytes}, x \in {0, 171, 255} }
    \cup { Fill(payloadLengthInBytes - 1, 171), Fill(payloadLengthInBytes + 1, 171) }

PartsInit ==
    /\ CodecIdle
    /\ InputIdle
    /\ GenIdle
    /\ tIn \in { UnixTime(s, n) : s \in SecondsSet, n \in NanosSet }
    /\ plIn \in PayloadSet
    /\ made = NoResult
    /\ tsOut = << 0, 0 >>
    /\ timeOut = ZeroTime
    /\ fpc = "start"

CallFromParts ==
    /\ fpc = "start"
    /\ made' = FromParts(tIn, plIn)
    /\ fpc' = "FromParts"
    /\ UNCHANGED << tIn, plIn, tsOut, timeOut, codecVars, inputVars, genVars >>

CallTimestamp ==
    /\ fpc = "FromParts"
    /\ made.err = "nil"
    /\ tsOut' = Timestamp(made.id)
    /\ fpc' = "Timestamp"
    /\ UNCHANGED << tIn, plIn, made, timeOut, codecVars, inputVars, genVars >>

CallTime ==
    /\ fpc = "Timestamp"
    /\ timeOut' = Time(made.id)
    /\ fpc' = "Time"
    /\ UNCHANGED << tIn, plIn, made, tsOut, codecVars, inputVars, genVars >>

PartsNext == CallFromParts \/ CallTimestamp \/ CallTime

SpecParts == PartsInit /\ [][PartsNext]_vars

\* x < y on non-negative int64.
Less64(x, y) == SeqCompareFrom(x, y, 1) < 0

InRange(sec) == ~Less64(sec, I64(epochStamp)) /\ Less64(sec, RangeEnd)

\* C7 as claimed: Timestamp() is the Unix seconds less 1,400,000,000
\* modulo 2^32, and Time() is the time given, cut to whole seconds.
C7_TimeRecovered ==
    /\ fpc \in {"Timestamp", "Time"} =>
           ToUint32(Add64(ToInt64(tsOut), I64(epochStamp))) = ToUint32(Unix(tIn))
    /\ fpc = "Time" => timeOut = UnixTime(Unix(tIn), 0)

\* C7 amended: Timestamp() is the Unix seconds less 1,400,000,000 modulo
\* 2^32; Time() is the time given cut to whole seconds when its Unix
\* seconds lie in [1,400,000,000, 1,400,000,000 + 2^32), and otherwise
\* the second of that range that is congruent to it modulo 2^32.
C7_TimestampCorrection ==
    /\ fpc \in {"Timestamp", "Time"} =>
           ToUint32(Add64(ToInt64(tsOut), I64(epochStamp))) = ToUint32(Unix(tIn))
    /\ fpc = "Time" =>
           /\ timeOut.nsec = 0
           /\ InRange(timeOut.sec)
           /\ ToUint32(timeOut.sec) = ToUint32(Unix(tIn))
           /\ InRange(Unix(tIn)) => timeOut = UnixTime(Unix(tIn), 0)

\* A time inside the range with a fraction of a second, taken apart again.
C7_Witness ==
    /\ fpc = "Time"
    /\ InRange(Unix(tIn))
    /\ tIn.nsec # 0
    /\ tsOut # << 0, 0 >>
    /\ timeOut = UnixTime(Unix(tIn), 0)

\* ------------------------------------------------------------ generator

Procs == 1..NumProcs

\* What a read of 16 bytes from each source can deliver.
SourceBytes(data) ==
    IF data = RandReader.data
    THEN { Fill(payloadLengthInBytes, 0), Fill(payloadLengthInBytes, 255) }
    ELSE { Fill(payloadLengthInBytes, 170) }

StartTimes ==
    { UnixTime(Sub64(I64(epochStamp), I64(2)), 0),
      UnixTime(Sub64(I64(epochStamp), I64(1)), 0),
      UnixTime(I64(1793836800), 0),
      UnixTime(Sub64(RangeEnd, I64(1)), 0) }

GenStart(times) ==
    /\ CodecIdle
    /\ InputIdle
    /\ PartsIdle
    /\ now \in times
    /\ ticks = 0
    /\ rander = RandReader
    /\ setter = [pc |-> "idle", calls |-> 0, val |-> RandReader]
    /\ pool = {}
    /\ buf = << >>
    /\ proc = [p \in Procs |-> IdleProc]
    /\ returned = {}

\* The wall clock advances by half a second.
Tick ==
    /\ ticks < MaxTicks
    /\ ticks' = ticks + 1
    /\ now' = IF now.nsec = 0 THEN UnixTime(now.sec, 500000000)
              ELSE UnixTime(Add64(now.sec, I64(1)), 0)
    /\ UNCHANGED << rander, setter, pool, buf, proc, returned,
                    codecVars, inputVars, partsVars >>

\* SetRand(r): the assignment to rander stores the two words of the
\* interface value one after the other.
SetRandTyp ==
    /\ setter.pc = "idle"
    /\ setter.calls < MaxSetRand
    /\ \E r \in {"nil", "user"} :
         LET v == IF r = "nil" THEN RandReader ELSE UserReader
         IN /\ rander' = [rander EXCEPT !.typ = v.typ]
            /\ setter' = [setter EXCEPT !.pc = "store", !.val = v]
    /\ UNCHANGED << now, ticks, pool, buf, proc, returned,
                    codecVars, inputVars, partsVars >>

SetRandData ==
    /\ setter.pc = "store"
    /\ rander' = [rander EXCEPT !.data = setter.val.data]
    /\ setter' = [setter EXCEPT !.pc = "idle", !.calls = @ + 1]
    /\ UNCHANGED << now, ticks, pool, buf, proc, returned,
                    codecVars, inputVars, partsVars >>

\* Calls of NewRandom begun so far, finished or not.
RECURSIVE CallsOf(_)
CallsOf(n) ==
    IF n = 0 THEN 0
    ELSE CallsOf(n - 1) + proc[n].calls + (IF proc[n].pc = "idle" THEN 0 ELSE 1)

CallsBegun == CallsOf(NumProcs)

PoolKeepsBuffer(bufs, x) == bufs

\* payloadPool after Get has handed out buffer x.
PoolAfterGet(bufs, x) == bufs \ {x}

\* Line 228: a buffer of the pool, or a new one from New.
PoolGet(p) ==
    /\ proc[p].pc = "idle"
    /\ CallsBegun < MaxCalls
    /\ \/ \E x \in pool :
            /\ pool' = PoolAfterGet(pool, x)
            /\ buf' = buf
            /\ proc' = [proc EXCEPT ![p].pc = "Get", ![p].held = x]
       \/ /\ pool' = pool
          /\ buf' = Append(buf, Fill(payloadLengthInBytes, 0))
          /\ proc' = [proc EXCEPT ![p].pc = "Get", ![p].held = Len(buf) + 1]
    /\ UNCHANGED << now, ticks, rander, setter, returned,
                    codecVars, inputVars, partsVars >>

\* Line 230: the argument rander is loaded word by word.
LoadTyp(p) ==
    /\ proc[p].pc = "Get"
    /\ proc' = [proc EXCEPT ![p].pc = "load", ![p].typ = rander.typ]
    /\ UNCHANGED << now, ticks, rander, setter, pool, buf, returned,
                    codecVars, inputVars, partsVars >>

LoadData(p) ==
    /\ proc[p].pc = "load"
    /\ proc' = [proc EXCEPT ![p].pc = "loaded", ![p].data = rander.data]
    /\ UNCHANGED << now, ticks, rander, setter, pool, buf, returned,
                    codecVars, inputVars, partsVars >>

Torn(h) == h \notin {RandReader, UserReader}

\* Lines 230-233: io.ReadFull fills the buffer or fails; on a handle whose
\* words belong to two readers the call is lost.
ReadFull(p) ==
    /\ proc[p].pc = "loaded"
    /\ LET h == Handle(proc[p].typ, proc[p].data)
       IN IF Torn(h)
          THEN /\ proc' = [proc EXCEPT ![p].pc = "torn"]
               /\ UNCHANGED << buf, returned >>
          ELSE \/ \E bs \in SourceBytes(h.data) :
                    /\ buf' = [buf EXCEPT ![proc[p].held] = bs]
                    /\ proc' = [proc EXCEPT ![p].pc = "ReadFull",
                                            ![p].read = bs, ![p].src = h.data]
                    /\ UNCHANGED returned
               \/ /\ proc' = [proc EXCEPT ![p] =
                        [IdleProc EXCEPT !.calls = proc[p].calls + 1]]
                  /\ UNCHANGED << buf, returned >>
    /\ UNCHANGED << now, ticks, rander, setter, pool,
                    codecVars, inputVars, partsVars >>

\* Lines 235-238: FromParts(time.Now(), (*payload)[:]).
MakeKsuid(p) ==
    /\ proc[p].pc = "ReadFull"
    /\ LET r == FromParts(now, buf[proc[p].held])
       IN proc' = [proc EXCEPT ![p].pc = "FromParts",
                               ![p].ksuid = r.id, ![p].tick = ticks,
                               ![p].at = Unix(now)]
    /\ UNCHANGED << now, ticks, rander, setter, pool, buf, returned,
                    codecVars, inputVars, partsVars >>

\* Lines 240-241: the buffer goes back to the pool and the KSUID is
\* returned.
PutAndReturn(p) ==
    /\ proc[p].pc = "FromParts"
    /\ pool' = pool \cup {proc[p].held}
    /\ returned' = returned \cup
           { [id |-> proc[p].ksuid, read |-> proc[p].read, src |-> proc[p].src,
              tick |-> proc[p].tick, at |-> proc[p].at,
              by |-> p, call |-> CallsBegun] }
    /\ proc' = [proc EXCEPT ![p] = [IdleProc EXCEPT !.calls = proc[p].calls + 1]]
    /\ UNCHANGED << now, ticks, rander, setter, buf,
                    codecVars, inputVars, partsVars >>

NewRandom(p) ==
    \/ PoolGet(p)
    \/ LoadTyp(p)
    \/ LoadData(p)
    \/ ReadFull(p)
    \/ MakeKsuid(p)
    \/ PutAndReturn(p)

\* Goroutines generating while another one swaps the entropy source.
GenInit == GenStart({ UnixTime(I64(1793836800), 0) })

GenNext ==
    \/ SetRandTyp
    \/ SetRandData
    \/ \E p \in Procs : NewRandom(p)

SpecGen == GenInit /\ [][GenNext]_vars

\* One goroutine generating one identifier after the other as time passes.
ChronoInit == GenStart(StartTimes)

ChronoNext == Tick \/ NewRandom(1)

SpecChrono == ChronoInit /\ [][ChronoNext]_vars

\* The 2^32-second window, counted from the KSUID epoch, that a second
\* lies in.
Window(sec) == SubSeq(Sub64(sec, I64(epochStamp)), 1, 2)

Ordered(A, B) ==
    /\ Compare(A.id, B.id) < 0
    /\ SeqCompareFrom(String(A.id), String(B.id), 1) < 0

\* C4 as claimed: an identifier generated a whole second or more after
\* another one compares greater, as bytes and as strings, whatever the
\* payloads.
C4_LaterIsGreater ==
    \A A \in returned, B \in returned :
        B.tick >= A.tick + 2 => Ordered(A, B)

\* C4 amended: an identifier generated a whole second or more after
\* another one compares greater, as bytes and as strings, whatever the
\* payloads, when both wall-clock times lie in the same 2^32-second
\* window counted from the KSUID epoch (1,400,000,000 Unix seconds).
C4_LaterIsGreaterInWindow ==
    \A A \in returned, B \in returned :
        (B.tick >= A.tick + 2 /\ Window(A.at) = Window(B.at)) => Ordered(A, B)

\* The earlier identifier has the greatest payload and the later one the
\* least, a second apart in the same window.
C4_Witness ==
    \E A \in returned, B \in returned :
        /\ B.tick >= A.tick + 2
        /\ Window(A.at) = Window(B.at)
        /\ Payload(A.id) = Fill(payloadLengthInBytes, 255)
        /\ Payload(B.id) = Fill(payloadLengthInBytes, 0)

\* C9 as claimed: the handle a generation call reads from is the old or
\* the new source, never a mix of the two.
C9_NoTornHandle ==
    \A p \in DOMAIN proc :
        proc[p].pc \in {"loaded", "torn"} =>
            ~Torn(Handle(proc[p].typ, proc[p].data))

\* C10: no buffer is held by two calls at once or while it is in the
\* pool, and every identifier made or returned carries the 16 bytes its
\* own call read, in every later state too.
C10_PoolIsolation ==
    /\ \A p \in DOMAIN proc :
         proc[p].held # 0 =>
             /\ proc[p].held \notin pool
             /\ \A q \in DOMAIN proc : q # p => proc[q].held # proc[p].held
    /\ \A p \in DOMAIN proc :
         proc[p].pc = "FromParts" => Payload(proc[p].ksuid) = proc[p].read
    /\ \A r \in returned : Payload(r.id) = r.read

\* Two goroutines have used the one buffer, one after the other, for
\* different payloads, and both identifiers have been returned.
C10_Witness ==
    /\ Len(buf) = 1
    /\ \E r1 \in returned, r2 \in returned :
         r1.read # r2.read /\ r1.by # r2.by

====
